---- MODULE Spec2Model ----
(***************************************************************************)
(* Model of mseld/http-backoff: the retry/backoff decision engine of       *)
(* BackoffClient (src/backoff/backoff.go, src/backoff/option.go).          *)
(*                                                                         *)
(* One BackoffClient is built by NewBackoffClient and then used by a small *)
(* number of goroutines, each calling Execute.  Execute hands the closure  *)
(* f (one attempt) and the client's single backOffStrategy to              *)
(* backoff.RetryNotifyWithData of github.com/cenkalti/backoff/v4, whose     *)
(* loop (Reset, operation, NextBackOff, notify, timer) is modelled step by *)
(* step.  Durations are in microseconds.                                   *)
(***************************************************************************)
EXTENDS Integers, Sequences, FiniteSets, TLC

(***************************************************************************)
(* Bounds of the model.                                                    *)
(***************************************************************************)
NumGoroutines == 2       \* goroutines calling Execute on the one client
MaxRetryBound == 2       \* WithMaxRetry values range over 0..MaxRetryBound
RandSteps     == 1       \* rand.Float64() is drawn from the grid 0..RandSteps
MaxStatusCode == 999     \* status codes of the classifier check: 0..MaxStatusCode

Procs == 1..NumGoroutines

\* Cap on the attempt counter of one Execute call: one more attempt than
\* the largest retry count allows, and one more to spare.
MaxAttempts == MaxRetryBound + 2

(***************************************************************************)
(* Durations (time.Duration, here in microseconds).                        *)
(***************************************************************************)
Millisecond == 1000
Second      == 1000 * Millisecond
Minute      == 60 * Second

\* backoff.go:16-22, the package defaults
DefaultMaxRetry        == 0
DefaultInitialInterval == 100 * Millisecond
DefaultMultiplier      == [num |-> 3, den |-> 2]     \* 1.5
DefaultMaxInterval     == 5 * Second
DefaultMaxElapsedTime  == 30 * Minute

\* backoff.NewExponentialBackOff() (backoff.go:89,91) is called with no
\* options, so the strategy keeps the library's own defaults:
\* InitialInterval 500ms, RandomizationFactor 0.5, Multiplier 1.5,
\* MaxInterval 60s, MaxElapsedTime 15min.
InitialInterval == 500 * Millisecond
MaxInterval     == 60 * Second
MaxElapsedTime  == 15 * Minute
MultiplierNum   == 3     \* Multiplier = MultiplierNum / MultiplierDen = 1.5
MultiplierDen   == 2
RandFactorNum   == 1     \* RandomizationFactor = 1/2
RandFactorDen   == 2

\* the time a slow transport call lets pass in one clock step
SlowCall == 16 * Minute

\* the duration the caller gives to WithTimeout
Timeout == 10 * Second

\* the length in bytes of the body of a request built with one
BodyLen == 2

(***************************************************************************)
(* Errors.  A Go error is modelled as its Unwrap chain: a sequence of      *)
(* layers, outermost first; the nil error is the empty chain.  A layer has *)
(* a type, an identity (the attempt that allocated it, 0 for a package     *)
(* level sentinel or for a value allocated by the policy itself) and, for  *)
(* errors made from a response, the status code.                           *)
(***************************************************************************)
Layer(t, i, s) == [type |-> t, id |-> i, status |-> s]

NoError == << >>

CtxCanceled         == Layer("context.Canceled", 0, 0)
CtxDeadlineExceeded == Layer("context.DeadlineExceeded", 0, 0)
\* the targets ErrorRetryPolicy and Execute allocate for errors.Is
RetrieveErrorTarget  == Layer("oauth2.RetrieveError", 0, 0)
RetryableErrorTarget == Layer("RetryableError", 0, 0)

\* errors.Is: some layer of the chain equals the target, or has an Is
\* method that accepts it; only RetryableError has one (backoff.go:61-64),
\* and it accepts every target of its own type.
ErrorsIs(err, target) ==
    \E i \in DOMAIN err :
        \/ err[i] = target
        \/ err[i].type = "RetryableError" /\ target.type = "RetryableError"

\* RetryableError{Response, Err} (backoff.go:39-59)
RetryableError(n, status, inner) == <<Layer("RetryableError", n, status)>> \o inner

\* backoff.Permanent(err)
Permanent(err) == IF err = NoError THEN NoError
                  ELSE <<Layer("backoff.PermanentError", 0, 0)>> \o err

\* errors.As(err, &permanent): the first PermanentError layer of the chain
IsPermanent(err) == \E i \in DOMAIN err : err[i].type = "backoff.PermanentError"

PermanentErr(err) ==
    LET i == CHOOSE k \in DOMAIN err :
                 /\ err[k].type = "backoff.PermanentError"
                 /\ \A j \in 1..(k - 1) : err[j].type # "backoff.PermanentError"
    IN  SubSeq(err, i + 1, Len(err))

\* what http.Client.Do returns as its error: a *url.Error around the cause
UrlError(n, cause) == <<Layer("url.Error", n, 0), cause>>

(***************************************************************************)
(* The retry classifier.                                                   *)
(***************************************************************************)
RetryableSet == {408, 425, 429}
StatusNotImplemented == 501

ErrorRetryPolicy(err) ==
    IF ErrorsIs(err, CtxDeadlineExceeded) THEN TRUE
    ELSE IF ErrorsIs(err, RetrieveErrorTarget) THEN TRUE
    ELSE FALSE

ResponseRetryPolicy_IgnoresNotImplemented(code) ==
    IF code \in RetryableSet
    THEN <<Layer("fmt.Errorf:status code retryable", 0, code)>>
    ELSE IF code >= 500
    THEN <<Layer("fmt.Errorf:unexpected status code", 0, code)>>
    ELSE NoError

ResponseRetryPolicy(code) ==
    IF code \in RetryableSet
    THEN <<Layer("fmt.Errorf:status code retryable", 0, code)>>
    ELSE IF code >= 500 /\ code # StatusNotImplemented
    THEN <<Layer("fmt.Errorf:unexpected status code", 0, code)>>
    ELSE NoError

(***************************************************************************)
(* The backoff strategy (github.com/cenkalti/backoff/v4), as configured by *)
(* NewBackoffClient.                                                       *)
(***************************************************************************)
\* ExponentialBackOff.incrementCurrentInterval
IncrementCurrentInterval(cur) ==
    IF cur * MultiplierNum >= MaxInterval * MultiplierDen
    THEN MaxInterval
    ELSE (cur * MultiplierNum) \div MultiplierDen

\* getRandomValueFromInterval(RandomizationFactor, random, cur) with random
\* = r / RandSteps: a value of [cur - delta, cur + delta]
GetRandomValueFromInterval(r, cur) ==
    LET delta       == (cur * RandFactorNum) \div RandFactorDen
        minInterval == cur - delta
        maxInterval == cur + delta
    IN  minInterval + (r * (maxInterval - minInterval)) \div RandSteps

\* The options of option.go: each sets one field of the config.  A
\* pointer field is a set, empty for nil.
WithClient(c)            == [field |-> "client", value |-> c]
WithTimeout(timeout)     == [field |-> "timeout", value |-> {timeout}]
WithMaxRetry(max)        == [field |-> "maxRetry", value |-> max]
WithInitialInterval(min) == [field |-> "initialInterval", value |-> min]
WithMaxInterval(max)     == [field |-> "maxInterval", value |-> max]
WithMultiplier(m)        == [field |-> "multiplier", value |-> m]

\* the http.Clients there are: the one NewDefaultClient() makes for the
\* config, one the caller passes to WithClient, and the process-wide
\* http.DefaultClient
NewDefaultClient  == "NewDefaultClient()"
SuppliedClient    == "supplied"
HttpDefaultClient == "http.DefaultClient"

\* the config NewBackoffClient starts from (backoff.go:73-83)
DefaultConfig ==
    [ maxRetry        |-> DefaultMaxRetry,
      initialInterval |-> DefaultInitialInterval,
      maxInterval     |-> DefaultMaxInterval,
      multiplier      |-> DefaultMultiplier,
      timeout         |-> {},
      client          |-> NewDefaultClient ]

\* for _, opt := range opts { opt.apply(&cfg) }
RECURSIVE ApplyOptions(_, _)
ApplyOptions(cfg, opts) ==
    IF opts = << >> THEN cfg
    ELSE ApplyOptions([cfg EXCEPT ![Head(opts).field] = Head(opts).value],
                      Tail(opts))

\* NewBackoffClient (backoff.go:72-99): the options are applied to cfg, the
\* strategy is built from cfg.maxRetry alone, and the embedded *http.Client
\* is http.DefaultClient.
NewBackoffClient_OneRetryShort(opts) ==
    LET cfg == ApplyOptions(DefaultConfig, opts) IN
    [ cfg      |-> cfg,
      strategy |-> IF cfg.maxRetry > 0
                   THEN [kind |-> "WithMaxRetries", maxTries |-> cfg.maxRetry - 1]
                   ELSE [kind |-> "ExponentialBackOff", maxTries |-> 0],
      Client   |-> HttpDefaultClient ]

NewBackoffClient(opts) ==
    LET cfg == ApplyOptions(DefaultConfig, opts) IN
    [ cfg      |-> cfg,
      strategy |-> IF cfg.maxRetry > 0
                   THEN [kind |-> "WithMaxRetries", maxTries |-> cfg.maxRetry]
                   ELSE [kind |-> "ExponentialBackOff", maxTries |-> 0],
      Client   |-> HttpDefaultClient ]

\* c.cfg.timeout != nil
HasTimeout(c) == c.cfg.timeout # {}

\* the options of a client with the given retry count, with a timeout or
\* without
RetryOptions(maxRetry, timeout) ==
    <<WithMaxRetry(maxRetry)>>
    \o (IF timeout THEN <<WithTimeout(Timeout)>> ELSE << >>)

(***************************************************************************)
(* One attempt.                                                            *)
(***************************************************************************)
\* The status codes the modelled endpoint answers with.
StatusCodes == {200, 429, 501, 503}

NoResponse == [status |-> 0, attempt |-> 0]

\* The context execute hands to c.Do (backoff.go:279-283): r.Context()
\* itself when no timeout is configured (state "none"), else a context
\* derived from r.Context() with the configured timeout left to its deadline.
\* r is the request Execute was given: execute's r = r.WithContext(ctx)
\* assigns its own parameter only, so the context derived by the previous
\* call of execute (prev) plays no part.
NoDerivedCtx == [state |-> "none", left |-> 0]

DeriveContext_FromPrevious(prev, timeout) ==
    IF timeout = {} THEN NoDerivedCtx
    ELSE IF prev.state \in {"expired", "canceled"} THEN prev
    ELSE [state |-> "live", left |-> CHOOSE d \in timeout : TRUE]

DeriveContext(prev, timeout) ==
    IF timeout = {} THEN NoDerivedCtx
    ELSE [state |-> "live", left |-> CHOOSE d \in timeout : TRUE]

\* execute's deferred cancel(), run when execute returns
DeferredCancel(c) ==
    IF c.state = "none" THEN c ELSE [state |-> "canceled", left |-> 0]

\* What c.Do can come back with, given the state of the caller's context
\* and of the context derived for the attempt.
DoOutcomes(ctxState, derivedState) ==
    IF derivedState = "expired" THEN {[kind |-> "attemptTimeout", status |-> 0]}
    ELSE IF ctxState = "canceled" THEN {[kind |-> "callerCanceled", status |-> 0]}
    ELSE IF ctxState = "deadline" THEN {[kind |-> "callerDeadline", status |-> 0]}
    ELSE {[kind |-> "response", status |-> s] : s \in StatusCodes}
         \cup {[kind |-> k, status |-> 0] : k \in {"connError", "tokenError"}}

\* What the transport leaves unread of the request body, of which left
\* bytes were unread when c.Do was called: nothing when a response came
\* back, any part when the call failed.
BodyLeftAfter(o, left) == IF o.kind = "response" THEN {0} ELSE 0..left

\* The error c.Do returns for an outcome of attempt n.
DoError(n, o) ==
    CASE o.kind = "callerCanceled" -> UrlError(n, CtxCanceled)
      [] o.kind = "callerDeadline" -> UrlError(n, CtxDeadlineExceeded)
      [] o.kind = "attemptTimeout" -> UrlError(n, CtxDeadlineExceeded)
      [] o.kind = "tokenError"     -> UrlError(n, Layer("oauth2.RetrieveError", n, 0))
      [] o.kind = "connError"      -> UrlError(n, Layer("net.OpError", n, 0))
      [] OTHER                     -> NoError

\* How io.ReadAll(resp.Body) can end.  execute's deferred cancel() has run
\* by then when a timeout is configured, so the read may also fail with
\* context.Canceled.
ReadOutcomes(canceled) ==
    {"ok", "unexpectedEOF"} \cup (IF canceled THEN {"canceled"} ELSE {})

ReadError(n, rd) ==
    IF rd = "canceled" THEN <<CtxCanceled>>
    ELSE <<Layer("io.ErrUnexpectedEOF", 0, 0)>>

\* BackoffClient.execute (backoff.go:276-304)
execute(n, o) ==
    LET err == DoError(n, o) IN
    IF err # NoError
    THEN IF ErrorRetryPolicy(err)
         THEN [resp |-> NoResponse, err |-> RetryableError(n, 0, err)]
         ELSE [resp |-> NoResponse, err |-> err]
    ELSE LET rerr == ResponseRetryPolicy(o.status) IN
         IF rerr # NoError
         THEN [resp |-> NoResponse, err |-> RetryableError(n, o.status, rerr)]
         ELSE [resp |-> [status |-> o.status, attempt |-> n], err |-> NoError]

\* f with ErrorLogHook called for permanent errors only
OperationF_HookOnPermanentOnly(n, o, rd) ==
    LET x == execute(n, o) IN
    IF x.err # NoError
    THEN [ res |-> NoResponse,
           err |-> IF ErrorsIs(x.err, RetryableErrorTarget)
                   THEN x.err ELSE Permanent(x.err),
           errHook |-> IF ErrorsIs(x.err, RetryableErrorTarget) THEN 0 ELSE 1,
           respHook |-> 0, read |-> "none", closed |-> 0 ]
    ELSE IF rd # "ok"
    THEN [ res |-> NoResponse, err |-> ReadError(n, rd),
           errHook |-> 0, respHook |-> 1, read |-> rd, closed |-> 0 ]
    ELSE [ res |-> x.resp, err |-> NoError,
           errHook |-> 0, respHook |-> 1, read |-> rd, closed |-> 1 ]

\* f returning every error of c.execute as it is, without backoff.Permanent
OperationF_NoPermanent(n, o, rd) ==
    LET x == execute(n, o) IN
    IF x.err # NoError
    THEN [ res |-> NoResponse, err |-> x.err,
           errHook |-> 1, respHook |-> 0, read |-> "none", closed |-> 0 ]
    ELSE IF rd # "ok"
    THEN [ res |-> NoResponse, err |-> ReadError(n, rd),
           errHook |-> 0, respHook |-> 1, read |-> rd, closed |-> 0 ]
    ELSE [ res |-> x.resp, err |-> NoError,
           errHook |-> 0, respHook |-> 1, read |-> rd, closed |-> 1 ]

\* The closure f of Execute (backoff.go:236-266), after attempt++: the
\* result it returns to the retry loop, the hooks it calls, how the read of
\* the body ended ("none": no read) and whether resp.Body.Close() is called
\* (the defer at backoff.go:258 is reached after a successful read only).
OperationF(n, o, rd) ==
    LET x == execute(n, o) IN
    IF x.err # NoError
    THEN [ res |-> NoResponse,
           err |-> IF ErrorsIs(x.err, RetryableErrorTarget)
                   THEN x.err ELSE Permanent(x.err),
           errHook |-> 1, respHook |-> 0, read |-> "none", closed |-> 0 ]
    ELSE IF rd # "ok"
    THEN [ res |-> NoResponse, err |-> ReadError(n, rd),
           errHook |-> 0, respHook |-> 1, read |-> rd, closed |-> 0 ]
    ELSE [ res |-> x.resp, err |-> NoError,
           errHook |-> 0, respHook |-> 1, read |-> rd, closed |-> 1 ]

\* notify reporting the number of the attempt to come
Notify_NextAttempt(attemptNow, next) == [attempt |-> attemptNow + 1, next |-> next]

\* The closure notify of Execute (backoff.go:268-270): the arguments
\* RequestLogHook is called with.
Notify(attemptNow, next) == [attempt |-> attemptNow, next |-> next]

(***************************************************************************)
(* The request builder (backoff.go:376-519).  A text (a URL-encoded form,  *)
(* a body) is the sequence of its characters.  Of the headers the builder  *)
(* keeps, Content-Type is modelled; the URL and the query are left out.    *)
(***************************************************************************)
ContentTypeJSON == "application/json"
ContentTypeForm == "application/x-www-form-urlencoded"
ContentTypeText == "text/plain"

\* the keys and the values of the form data passed to PostForm
FormKeys   == <<"a", "b">>
FormValues == {"1", "2"}

\* the arguments of PostForm: every map[string]string over them
FormMaps ==
    UNION {[K -> FormValues] : K \in SUBSET {FormKeys[i] : i \in DOMAIN FormKeys}}

\* url.Values: a map from keys to lists of values; nil for the nil map
NilValues == [nil |-> TRUE, m |-> << >>]

\* len(v) of a url.Values
LenValues(v) == Cardinality(DOMAIN v.m)

\* url.Values.Add(key, value): v[key] = append(v[key], value); assigning
\* to an entry of the nil map panics
AddPanics(v) == v.nil

Add(v, key, value) ==
    [ nil |-> FALSE,
      m   |-> [k \in DOMAIN v.m \cup {key} |->
                  IF k = key
                  THEN (IF k \in DOMAIN v.m THEN v.m[k] ELSE << >>) \o <<value>>
                  ELSE v.m[k]] ]

\* the pairs key=value of a list of values of one key, joined by "&"
RECURSIVE EncodeKey(_, _)
EncodeKey(key, values) ==
    IF values = << >> THEN << >>
    ELSE <<key, "=", Head(values)>>
         \o (IF Tail(values) = << >> THEN << >> ELSE <<"&">>)
         \o EncodeKey(key, Tail(values))

\* url.Values.Encode(): the keys in sorted order (the order of FormKeys),
\* each with its values
RECURSIVE EncodeFrom(_, _)
EncodeFrom(v, i) ==
    IF i > Len(FormKeys) THEN << >>
    ELSE LET rest == EncodeFrom(v, i + 1)
             this == IF FormKeys[i] \in DOMAIN v.m
                     THEN EncodeKey(FormKeys[i], v.m[FormKeys[i]]) ELSE << >>
         IN  this \o (IF this # << >> /\ rest # << >> THEN <<"&">> ELSE << >>)
                  \o rest

Encode(v) == EncodeFrom(v, 1)

\* strings.NewReader(s), for the texts given to BodyString
Bodies == {<<"x">>, <<"y", "z">>}

NoRequest == [method |-> "", contentType |-> "", body |-> << >>]

\* NewRequestBuilder (backoff.go:386-391): form is left nil
NewRequestBuilder ==
    [ method |-> "", contentType |-> "", form |-> NilValues, body |-> << >> ]

NoBuild == [state |-> "building", form |-> << >>, req |-> NoRequest]

(***************************************************************************)
(* State.                                                                  *)
(***************************************************************************)
VARIABLES
    client,          \* the BackoffClient: cfg and the kind of its strategy
    numTries,        \* backOffTries.numTries of client.backOffStrategy
    currentInterval, \* ExponentialBackOff.currentInterval of the same
    elapsed,         \* GetElapsedTime(): the time since its startTime
    pc,              \* where each goroutine is in Execute
    attempt,         \* Execute's local attempt
    ctx,             \* state of the context of the request being executed
    opErr,           \* doRetryNotify's local err
    triesRead,       \* numTries as read by NextBackOff before its increment
    wait,            \* time left until the timer of the current wait fires
    result,          \* what Execute returned
    hist,            \* what the hooks and the transport have seen
    derived,         \* the context execute derived for the current attempt
    body,            \* the request's body: its length, and what r.Body still holds
    polCode,         \* classifier check: the status code classified
    polResult,       \* classifier check: "unset", or the classification
    rb,              \* request builder: the fields of the RequestBuilder
    build            \* request builder: how far it is, and what Build returned

shared == <<numTries, currentInterval>>
locals == <<attempt, opErr, triesRead, result>>
policy == <<polCode, polResult>>
builder == <<rb, build>>
vars == <<client, numTries, currentInterval, elapsed, pc,
          attempt, ctx, opErr, triesRead, wait, result, hist, derived, body,
          polCode, polResult, rb, build>>

NoResult == [res |-> NoResponse, err |-> NoError]
NoNotify == [attempt |-> 0, next |-> 0]
NoSnap   == [pc |-> "none", attempt |-> 0, hooks |-> 0]
NoRead   == [rd |-> "none", status |-> 0, ctx |-> "none"]

\* a request without a body, and one with a body of n bytes, still unread
NoBody == [len |-> 0, left |-> 0]
BodyOf(n) == [len |-> n, left |-> n]

\* The record of one Execute call kept for the properties.
HistInit ==
    [ nResp        |-> 0,       \* attempts whose c.Do returned a response
      nRespRetry   |-> 0,       \* ... a response classified retryable
      nErr         |-> 0,       \* attempts whose c.Do returned an error
      respHook     |-> 0,       \* ResponseLogHook calls
      errHook      |-> 0,       \* ErrorLogHook calls
      reqHook      |-> 0,       \* RequestLogHook calls
      lastNotify   |-> NoNotify,\* arguments of the last RequestLogHook call
      allRetryable |-> TRUE,    \* every attempt so far had a retryable outcome
      stop         |-> "none",  \* which bound made NextBackOff return Stop
      ctxDone      |-> NoSnap,  \* where the call was when its context ended
      readFailed   |-> FALSE,   \* some attempt failed to read the body
      last         |-> "none",  \* kind of the outcome of the last c.Do
      lastRead     |-> NoRead,  \* the body read of the last attempt, and
                                \* the attempt's context at that read
      open         |-> 0,       \* response bodies received and not closed
      doers        |-> {},      \* the http.Clients whose Do was called
      bodies       |-> {},      \* sizes of the request body as c.Do found it
      granted      |-> 0,       \* time to its deadline the last derived context got
      interval     |-> 0        \* the interval the last wait was drawn from
    ]

Running(p) == pc[p] \in {"operation", "transport", "nextBackOff", "nextBackOff2", "timer"}
Returned(p) == pc[p] = "returned"

\* c.Do calls made by the Execute call of p so far
Transports(p) == hist[p].nResp + hist[p].nErr + (IF pc[p] = "transport" THEN 1 ELSE 0)

\* No Execute call has been made yet.
NoCalls ==
    /\ numTries = 0
    /\ currentInterval = InitialInterval
    /\ elapsed = 0
    /\ pc = [p \in Procs |-> "idle"]
    /\ attempt = [p \in Procs |-> 0]
    /\ ctx = [p \in Procs |-> "live"]
    /\ opErr = [p \in Procs |-> NoError]
    /\ triesRead = [p \in Procs |-> 0]
    /\ wait = [p \in Procs |-> 0]
    /\ result = [p \in Procs |-> NoResult]
    /\ hist = [p \in Procs |-> HistInit]
    /\ derived = [p \in Procs |-> NoDerivedCtx]

\* The classifier check and the request builder, when left aside.
NoPolicy == polCode = 0 /\ polResult = "unset"

NoBuilder == rb = NewRequestBuilder /\ build = NoBuild

\* The requests executed have no body.
Init ==
    /\ \E m \in 0..MaxRetryBound, t \in BOOLEAN :
           client = NewBackoffClient(RetryOptions(m, t))
    /\ NoCalls
    /\ body = [p \in Procs |-> NoBody]
    /\ NoPolicy
    /\ NoBuilder

\* The clock advances by d: the elapsed time grows, the running timers come
\* closer to firing and the live derived contexts to their deadline.
Pass(d) ==
    /\ elapsed' = elapsed + d
    /\ wait' = [q \in Procs |-> IF wait[q] > d THEN wait[q] - d ELSE 0]
    /\ derived' = [q \in Procs |->
           IF derived[q].state # "live" THEN derived[q]
           ELSE IF derived[q].left > d
           THEN [derived[q] EXCEPT !.left = @ - d]
           ELSE [state |-> "expired", left |-> 0]]

(***************************************************************************)
(* Execute (backoff.go:234-273) and the loop of RetryNotifyWithData.       *)
(***************************************************************************)
\* Execute returns (res, err) to its caller.
Return(p, res, err, why) ==
    /\ pc' = [pc EXCEPT ![p] = "returned"]
    /\ result' = [result EXCEPT ![p] = [res |-> res, err |-> err]]
    /\ opErr' = [opErr EXCEPT ![p] = NoError]
    /\ triesRead' = [triesRead EXCEPT ![p] = 0]
    /\ UNCHANGED attempt
    /\ hist' = [hist EXCEPT ![p].stop = why]

\* Execute called with the strategy left as the earlier calls left it
Start_NoReset(p) ==
    /\ pc[p] = "idle"
    /\ attempt' = [attempt EXCEPT ![p] = 0]
    /\ pc' = [pc EXCEPT ![p] = "operation"]
    /\ UNCHANGED <<client, shared, elapsed, ctx, opErr, triesRead, wait,
                   result, hist, derived, body, policy, builder>>

\* Execute is called: attempt := 0, and RetryNotifyWithData starts with
\* b.Reset() on the client's strategy (numTries = 0, currentInterval =
\* InitialInterval, startTime = now).
Start(p) ==
    /\ pc[p] = "idle"
    /\ attempt' = [attempt EXCEPT ![p] = 0]
    /\ numTries' = 0
    /\ currentInterval' = InitialInterval
    /\ elapsed' = 0
    /\ pc' = [pc EXCEPT ![p] = "operation"]
    /\ UNCHANGED <<client, ctx, opErr, triesRead, wait, result, hist,
                   derived, body, policy, builder>>

\* As Start, when no other Execute call is in progress on the client.
StartAlone(p) ==
    /\ \A q \in Procs \ {p} : pc[q] = "idle"
    /\ Start(p)

\* operation() is called, while the retry loop is in one of the places
\* from: f increments attempt, and c.execute derives the context of the
\* attempt and calls c.Do, the Do of the embedded *http.Client, with the
\* request as it is.
BeginAttemptFrom(p, from) ==
    /\ pc[p] \in from
    /\ attempt[p] < MaxAttempts
    /\ attempt' = [attempt EXCEPT ![p] = @ + 1]
    /\ pc' = [pc EXCEPT ![p] = "transport"]
    /\ LET c == DeriveContext(derived[p], client.cfg.timeout) IN
        /\ derived' = [derived EXCEPT ![p] = c]
        /\ hist' = [hist EXCEPT ![p].doers = @ \cup {client.Client},
                                ![p].bodies = @ \cup {body[p].left},
                                ![p].granted = c.left]
    /\ UNCHANGED <<client, shared, elapsed, ctx, opErr, triesRead, wait,
                   result, body, policy, builder>>

\* operation() called when the wait is not over yet
BeginAttempt_DuringWait(p) == BeginAttemptFrom(p, {"operation", "timer"})

\* The retry loop calls operation() at its start and after each wait.
BeginAttempt(p) == BeginAttemptFrom(p, {"operation"})

\* c.Do returns with an outcome of the set O; f classifies it, calls its
\* hook and reads the body; the retry loop returns on success and on a
\* permanent error, and goes on to NextBackOff otherwise.
TransportReturnFrom(p, O) ==
    /\ pc[p] = "transport"
    /\ derived' = [derived EXCEPT ![p] = DeferredCancel(@)]
    /\ \E o \in O, rd \in ReadOutcomes(DeferredCancel(derived[p]).state = "canceled") :
       \E left \in BodyLeftAfter(o, body[p].left) :
        LET n == attempt[p]
            r == OperationF(n, o, rd)
            h == [hist[p] EXCEPT
                    !.nResp = @ + (IF o.kind = "response" THEN 1 ELSE 0),
                    !.nRespRetry = @ + (IF o.kind = "response"
                                           /\ execute(n, o).err # NoError
                                        THEN 1 ELSE 0),
                    !.nErr = @ + (IF o.kind = "response" THEN 0 ELSE 1),
                    !.respHook = @ + r.respHook,
                    !.errHook = @ + r.errHook,
                    !.allRetryable = @ /\ ErrorsIs(r.err, RetryableErrorTarget),
                    !.readFailed = @ \/ r.read \notin {"ok", "none"},
                    !.last = o.kind,
                    !.lastRead = IF r.read = "none" THEN NoRead
                                 ELSE [rd |-> r.read, status |-> o.status,
                                       ctx |-> DeferredCancel(derived[p]).state],
                    !.open = @ + (IF o.kind = "response" THEN 1 ELSE 0)
                               - r.closed]
            res == r.res
            err == IF IsPermanent(r.err) THEN PermanentErr(r.err) ELSE r.err
        IN
        /\ body' = [body EXCEPT ![p].left = left]
        /\ IF r.err = NoError \/ IsPermanent(r.err)
           THEN /\ pc' = [pc EXCEPT ![p] = "returned"]
                /\ result' = [result EXCEPT ![p] = [res |-> res, err |-> err]]
                /\ hist' = [hist EXCEPT ![p] = h]
                /\ opErr' = [opErr EXCEPT ![p] = NoError]
           ELSE /\ pc' = [pc EXCEPT ![p] = "nextBackOff"]
                /\ opErr' = [opErr EXCEPT ![p] = r.err]
                /\ hist' = [hist EXCEPT ![p] = h]
                /\ UNCHANGED result
    /\ UNCHANGED <<client, shared, elapsed, attempt, ctx, triesRead, wait,
                   policy, builder>>

TransportReturn(p) ==
    TransportReturnFrom(p, DoOutcomes(ctx[p], derived[p].state))

\* backOffTries.NextBackOff, up to its read of numTries: Stop when the
\* tries are used up.  The plain ExponentialBackOff has no such check.
NextBackOffTries(p) ==
    /\ pc[p] = "nextBackOff"
    /\ IF client.strategy.kind = "WithMaxRetries"
          /\ (client.strategy.maxTries = 0 \/ client.strategy.maxTries <= numTries)
       THEN Return(p, NoResponse, opErr[p], "tries")
       ELSE /\ pc' = [pc EXCEPT ![p] = "nextBackOff2"]
            /\ triesRead' = [triesRead EXCEPT ![p] =
                   IF client.strategy.kind = "WithMaxRetries" THEN numTries ELSE 0]
            /\ UNCHANGED <<attempt, opErr, result, hist>>
    /\ UNCHANGED <<client, shared, elapsed, ctx, wait, derived, body, policy,
                   builder>>

\* backOffTries.NextBackOff writes numTries++, and the delegate
\* ExponentialBackOff.NextBackOff draws the wait, steps currentInterval and
\* checks the elapsed time.  On Stop the loop returns the operation's error
\* (its own context is context.Background()); else it calls notify and
\* starts the timer; its err is dead from then on, until operation()
\* assigns it again.
NextBackOffExponential(p) ==
    /\ pc[p] = "nextBackOff2"
    /\ numTries' = IF client.strategy.kind = "WithMaxRetries"
                   THEN triesRead[p] + 1 ELSE numTries
    /\ currentInterval' = IncrementCurrentInterval(currentInterval)
    /\ \E r \in 0..RandSteps :
        LET next == GetRandomValueFromInterval(r, currentInterval) IN
        IF MaxElapsedTime # 0 /\ elapsed + next > MaxElapsedTime
        THEN /\ Return(p, NoResponse, opErr[p], "elapsed")
             /\ UNCHANGED wait
        ELSE /\ pc' = [pc EXCEPT ![p] = "timer"]
             /\ wait' = [wait EXCEPT ![p] = next]
             /\ triesRead' = [triesRead EXCEPT ![p] = 0]
             /\ opErr' = [opErr EXCEPT ![p] = NoError]
             /\ hist' = [hist EXCEPT ![p].reqHook = @ + 1,
                                     ![p].lastNotify = Notify(attempt[p], next),
                                     ![p].interval = currentInterval]
             /\ UNCHANGED <<attempt, result>>
    /\ UNCHANGED <<client, elapsed, ctx, derived, body, policy, builder>>

\* The timer of the wait fires (the loop selects on the timer and on the
\* Done channel of its own context, context.Background(): only the timer
\* can fire).
TimerFires(p) ==
    /\ pc[p] = "timer"
    /\ Pass(wait[p])
    /\ pc' = [pc EXCEPT ![p] = "operation"]
    /\ UNCHANGED <<client, shared, ctx, locals, hist, body, policy, builder>>

\* The deadline of the context derived for the attempt in flight passes.
AttemptDeadline(p) ==
    /\ pc[p] = "transport"
    /\ ctx[p] = "live"
    /\ derived[p].state = "live"
    /\ Pass(derived[p].left)
    /\ UNCHANGED <<client, shared, pc, ctx, locals, hist, body, policy, builder>>

\* The caller's context ends while Execute is suspended, in c.Do or in the
\* backoff wait: by cancel, or by its own deadline.
ContextEnds(p, how) ==
    /\ pc[p] \in {"transport", "timer"}
    /\ ctx[p] = "live"
    /\ ctx' = [ctx EXCEPT ![p] = how]
    /\ hist' = [hist EXCEPT ![p].ctxDone =
                   [pc |-> pc[p], attempt |-> attempt[p],
                    hooks |-> hist[p].respHook + hist[p].errHook + hist[p].reqHook]]
    /\ UNCHANGED <<client, shared, elapsed, pc, locals, wait, derived, body,
                   policy, builder>>

Cancel(p) == ContextEnds(p, "canceled")

DeadlineExpires(p) == ContextEnds(p, "deadline")

\* The caller takes what Execute returned; the goroutine is free again,
\* with a new request of the same kind to execute.
Done(p) ==
    /\ pc[p] = "returned"
    /\ pc' = [pc EXCEPT ![p] = "idle"]
    /\ attempt' = [attempt EXCEPT ![p] = 0]
    /\ ctx' = [ctx EXCEPT ![p] = "live"]
    /\ result' = [result EXCEPT ![p] = NoResult]
    /\ hist' = [hist EXCEPT ![p] = HistInit]
    /\ derived' = [derived EXCEPT ![p] = NoDerivedCtx]
    /\ body' = [body EXCEPT ![p].left = body[p].len]
    /\ UNCHANGED <<client, shared, elapsed, opErr, triesRead, wait, policy,
                   builder>>

\* A slow transport call of a client without timeout: time passes while it
\* is in flight.  Once the elapsed time is past MaxElapsedTime, NextBackOff
\* stops whatever more time passes, so the clock is not stepped further.
Tick ==
    /\ \E p \in Procs : pc[p] = "transport"
    /\ ~HasTimeout(client)
    /\ elapsed <= MaxElapsedTime
    /\ Pass(SlowCall)
    /\ UNCHANGED <<client, shared, pc, ctx, locals, hist, body, policy, builder>>

Step(p) ==
    \/ BeginAttempt(p)
    \/ TransportReturn(p)
    \/ NextBackOffTries(p)
    \/ NextBackOffExponential(p)
    \/ TimerFires(p)
    \/ AttemptDeadline(p)
    \/ Cancel(p)
    \/ DeadlineExpires(p)
    \/ Done(p)

\* Execute calls on the client follow one another, never overlapping.
Next ==
    \/ \E p \in Procs : StartAlone(p)
    \/ \E p \in Procs : Step(p)
    \/ Tick

Spec == Init /\ [][Next]_vars

(***************************************************************************)
(* Goroutines calling Execute once each on the shared client, the calls    *)
(* overlapping as they may.  The client is built with maxRetry > 0 and no  *)
(* timeout, against an endpoint whose every attempt has the same           *)
(* retryable outcome.  No transport call is slow: time passes in the       *)
(* backoff waits alone.                                                    *)
(***************************************************************************)
\* The endpoint answers 503 Service Unavailable to every attempt.
AlwaysUnavailable == {[kind |-> "response", status |-> 503]}

TransportReturnUnavailable(p) == TransportReturnFrom(p, AlwaysUnavailable)

InitConcurrent ==
    /\ \E m \in 1..MaxRetryBound : client = NewBackoffClient(RetryOptions(m, FALSE))
    /\ NoCalls
    /\ body = [p \in Procs |-> NoBody]
    /\ NoPolicy
    /\ NoBuilder

NextConcurrent ==
    \/ \E p \in Procs : Start(p)
    \/ \E p \in Procs : BeginAttempt(p)
    \/ \E p \in Procs : TransportReturnUnavailable(p)
    \/ \E p \in Procs : NextBackOffTries(p)
    \/ \E p \in Procs : NextBackOffExponential(p)
    \/ \E p \in Procs : TimerFires(p)

SpecConcurrent == InitConcurrent /\ [][NextConcurrent]_vars

(***************************************************************************)
(* The response classifier applied to every status code.                   *)
(***************************************************************************)
InitPolicy ==
    /\ client = NewBackoffClient(<< >>)
    /\ NoCalls
    /\ body = [p \in Procs |-> NoBody]
    /\ polCode \in 0..MaxStatusCode
    /\ polResult = "unset"
    /\ NoBuilder

Classify ==
    /\ polResult = "unset"
    /\ polResult' = IF ResponseRetryPolicy(polCode) # NoError
                    THEN "retryable" ELSE "not retryable"
    /\ UNCHANGED <<client, shared, elapsed, pc, ctx, locals, wait, hist,
                   derived, body, polCode, builder>>

NextPolicy == Classify

SpecPolicy == InitPolicy /\ [][NextPolicy]_vars

(***************************************************************************)
(* One Execute call on a client built with options of every kind, for a    *)
(* request with a body or without, against an endpoint that answers 200 or *)
(* 503 or lets the attempt run into its timeout.                           *)
(***************************************************************************)
\* The interval options given to the constructor, in four variants.
IntervalOptions(v) ==
    CASE v = 1 -> << >>
      [] v = 2 -> <<WithInitialInterval(200 * Millisecond)>>
      [] v = 3 -> <<WithInitialInterval(200 * Millisecond),
                    WithMaxInterval(250 * Millisecond)>>
      [] v = 4 -> <<WithMultiplier([num |-> 2, den |-> 1])>>

InitConfigured ==
    /\ \E m \in 0..MaxRetryBound, v \in 1..4, t \in BOOLEAN, c \in BOOLEAN :
           client = NewBackoffClient(
                        RetryOptions(m, t) \o IntervalOptions(v)
                        \o (IF c THEN <<WithClient(SuppliedClient)>> ELSE << >>))
    /\ NoCalls
    /\ \E n \in {0, BodyLen} : body = [p \in Procs |-> BodyOf(n)]
    /\ NoPolicy
    /\ NoBuilder

\* what this endpoint lets c.Do come back with
Answers(p) ==
    {o \in DoOutcomes(ctx[p], derived[p].state) :
        o.kind = "attemptTimeout" \/ (o.kind = "response" /\ o.status \in {200, 503})}

TransportReturnAnswer(p) == TransportReturnFrom(p, Answers(p))

NextConfigured ==
    \/ \E p \in Procs : StartAlone(p)
    \/ \E p \in Procs : BeginAttempt(p)
    \/ \E p \in Procs : TransportReturnAnswer(p)
    \/ \E p \in Procs : NextBackOffTries(p)
    \/ \E p \in Procs : NextBackOffExponential(p)
    \/ \E p \in Procs : TimerFires(p)
    \/ \E p \in Procs : AttemptDeadline(p)

SpecConfigured == InitConfigured /\ [][NextConfigured]_vars

(***************************************************************************)
(* Execute calls made one after another on the one client, each by a       *)
(* goroutine of its own, in the order of the goroutines.  The endpoint     *)
(* answers 200 or 503, or the connection fails; the client has no timeout. *)
(***************************************************************************)
InitSequence ==
    /\ \E m \in 0..MaxRetryBound : client = NewBackoffClient(RetryOptions(m, FALSE))
    /\ NoCalls
    /\ body = [p \in Procs |-> NoBody]
    /\ NoPolicy
    /\ NoBuilder

\* The caller takes what Execute returned and makes no further call.  Of
\* the call, the number of its attempts and what stopped it stay on record.
Retire(p) ==
    /\ pc[p] = "returned"
    /\ pc' = [pc EXCEPT ![p] = "done"]
    /\ result' = [result EXCEPT ![p] = NoResult]
    /\ hist' = [hist EXCEPT ![p] = [HistInit EXCEPT !.stop = hist[p].stop]]
    /\ derived' = [derived EXCEPT ![p] = NoDerivedCtx]
    /\ UNCHANGED <<client, shared, elapsed, attempt, ctx, opErr, triesRead,
                   wait, body, policy, builder>>

\* Execute is called when every call made before is over.
StartNext(p) ==
    /\ \A q \in Procs : q < p => pc[q] = "done"
    /\ \A q \in Procs : q > p => pc[q] = "idle"
    /\ Start(p)

\* what this endpoint lets c.Do come back with
AnswersOrFails(p) ==
    {o \in DoOutcomes(ctx[p], derived[p].state) :
        o.kind = "connError" \/ (o.kind = "response" /\ o.status \in {200, 503})}

TransportReturnAnswerOrFail(p) == TransportReturnFrom(p, AnswersOrFails(p))

NextSequence ==
    \/ \E p \in Procs : StartNext(p)
    \/ \E p \in Procs : BeginAttempt(p)
    \/ \E p \in Procs : TransportReturnAnswerOrFail(p)
    \/ \E p \in Procs : NextBackOffTries(p)
    \/ \E p \in Procs : NextBackOffExponential(p)
    \/ \E p \in Procs : TimerFires(p)
    \/ \E p \in Procs : Retire(p)

SpecSequence == InitSequence /\ [][NextSequence]_vars

(***************************************************************************)
(* The request builder: a builder from NewRequestBuilder, its setters      *)
(* called in any order and number, then Build.                             *)
(***************************************************************************)
InitBuilder ==
    /\ client = NewBackoffClient(<< >>)
    /\ NoCalls
    /\ body = [p \in Procs |-> NoBody]
    /\ NoPolicy
    /\ rb = NewRequestBuilder
    /\ build = NoBuild

calls == <<client, shared, elapsed, pc, ctx, locals, wait, hist, derived, body>>

Method(method) ==
    /\ build.state = "building"
    /\ rb' = [rb EXCEPT !.method = method]
    /\ UNCHANGED <<calls, policy, build>>

ContentType(contentType) ==
    /\ build.state = "building"
    /\ rb' = [rb EXCEPT !.contentType = contentType]
    /\ UNCHANGED <<calls, policy, build>>

BodyString(b) ==
    /\ build.state = "building"
    /\ rb' = [rb EXCEPT !.body = b]
    /\ UNCHANGED <<calls, policy, build>>

\* for key, value := range form { rb.form.Add(key, value) }
RECURSIVE AddAll(_, _, _)
AddAll(v, form, keys) ==
    IF keys = {} THEN v
    ELSE LET key == CHOOSE k \in keys : TRUE
         IN  AddAll(Add(v, key, form[key]), form, keys \ {key})

PostForm(form) ==
    /\ build.state = "building"
    /\ IF DOMAIN form # {} /\ AddPanics(rb.form)
       THEN /\ build' = [build EXCEPT !.state = "panic", !.form = form]
            /\ UNCHANGED rb
       ELSE /\ rb' = [rb EXCEPT !.form = AddAll(rb.form, form, DOMAIN form)]
            /\ build' = [build EXCEPT !.form = form]
    /\ UNCHANGED <<calls, policy>>

\* Build (backoff.go:491-519); http.NewRequestWithContext makes the empty
\* method GET.
Build ==
    /\ build.state = "building"
    /\ LET hasForm == LenValues(rb.form) > 0
           b == IF hasForm
                THEN [rb EXCEPT !.method = "POST",
                                !.contentType = ContentTypeForm,
                                !.body = Encode(rb.form)]
                ELSE rb
       IN  /\ rb' = b
           /\ build' = [build EXCEPT
                  !.state = "built",
                  !.req = [method      |-> IF b.method = "" THEN "GET" ELSE b.method,
                           contentType |-> b.contentType,
                           body        |-> b.body]]
    /\ UNCHANGED <<calls, policy>>

NextBuilder ==
    \/ \E m \in {"GET", "PUT", "POST"} : Method(m)
    \/ \E c \in {ContentTypeJSON, ContentTypeForm, ContentTypeText} : ContentType(c)
    \/ \E b \in Bodies : BodyString(b)
    \/ \E f \in FormMaps : PostForm(f)
    \/ Build

SpecBuilder == InitBuilder /\ [][NextBuilder]_vars

(***************************************************************************)
(* Properties.                                                             *)
(***************************************************************************)
MaxRetry == client.cfg.maxRetry

\* The error Execute returns is the RetryableError of its last attempt.
ReturnsLastRetryable(p) ==
    /\ result[p].res = NoResponse
    /\ result[p].err # NoError
    /\ result[p].err[1].type = "RetryableError"
    /\ result[p].err[1].id = attempt[p]

\* The largest wait a draw can give.
MaxWait == MaxInterval + (MaxInterval * RandFactorNum) \div RandFactorDen

\* C1, as claimed: with maxRetry = N > 0 and no other call running, an
\* Execute call whose every attempt had a retryable outcome has made exactly
\* N+1 transport attempts when it returns, and returns a nil Response and
\* the error of the last attempt.
C1_ExactlyNPlusOne ==
    \A p \in Procs :
        (Returned(p) /\ MaxRetry > 0 /\ hist[p].allRetryable)
        => /\ attempt[p] = MaxRetry + 1
           /\ Transports(p) = MaxRetry + 1
           /\ ReturnsLastRetryable(p)

\* C1, amended: such a call makes at most N+1 attempts; it makes exactly
\* N+1 when the retry count stops it, and fewer only when the strategy's
\* elapsed-time bound (MaxElapsedTime, 15 minutes) stopped it first.  Either
\* way it returns a nil Response and the error of its last attempt.
C1_NPlusOneUnlessElapsed ==
    \A p \in Procs :
        (Returned(p) /\ MaxRetry > 0 /\ hist[p].allRetryable)
        => /\ Transports(p) = attempt[p]
           /\ \/ hist[p].stop = "tries" /\ attempt[p] = MaxRetry + 1
              \/ /\ hist[p].stop = "elapsed"
                 /\ attempt[p] <= MaxRetry
                 /\ elapsed + MaxWait > MaxElapsedTime
           /\ ReturnsLastRetryable(p)

C1_Witness ==
    \E p \in Procs :
        /\ Returned(p) /\ MaxRetry = 2 /\ hist[p].allRetryable
        /\ attempt[p] = 3 /\ hist[p].stop = "tries"

\* C2, as claimed: under every interleaving of two Execute calls on a
\* client with maxRetry = N > 0 against an always-retryable endpoint, a call
\* that the retry count stops has made exactly N+1 attempts (no call's
\* steps change the retry budget of the other).
C2_EachCallOwnsItsBudget ==
    \A p \in Procs :
        (Returned(p) /\ MaxRetry > 0 /\ hist[p].allRetryable
            /\ hist[p].stop = "tries")
        => attempt[p] = MaxRetry + 1

RetryableStatus(code) == code \in {408, 425, 429} \/ (code >= 500 /\ code # 501)

\* C3, as claimed: a status code is classified retryable if and only if it
\* is 408, 425 or 429, or lies in [500, 600) and is not 501.
C3_RetryableIffListedOr5xx ==
    polResult # "unset"
    => (polResult = "retryable"
        <=> (polCode \in {408, 425, 429}
             \/ (polCode >= 500 /\ polCode < 600 /\ polCode # 501)))

\* C3, amended: a status code is classified retryable if and only if it is
\* 408, 425 or 429, or is 500 or above and is not 501; there is no upper
\* limit at 600.
C3_RetryableIffListedOrFrom500 ==
    polResult # "unset"
    => (polResult = "retryable" <=> RetryableStatus(polCode))

C3_Witness == polResult = "retryable" /\ polCode = 600

HookCalls(p) == hist[p].respHook + hist[p].errHook + hist[p].reqHook

IsCancellation(err) == ErrorsIs(err, CtxCanceled) \/ ErrorsIs(err, CtxDeadlineExceeded)

\* C4, as claimed: once the caller's context is canceled during the backoff
\* wait, no further attempt is started (the attempt counter stays, no
\* transport call, no hook call), and what Execute returns is a
\* cancellation error.
C4_CancelInWaitStopsCall ==
    \A p \in Procs :
        (ctx[p] = "canceled" /\ hist[p].ctxDone.pc = "timer")
        => /\ attempt[p] = hist[p].ctxDone.attempt
           /\ HookCalls(p) = hist[p].ctxDone.hooks
           /\ pc[p] # "transport"
           /\ Returned(p) => (result[p].res = NoResponse
                              /\ IsCancellation(result[p].err))

\* C5, as claimed: when the caller's context is canceled or its deadline
\* expires while a transport call is in flight, that attempt is the last:
\* no retry is scheduled, and Execute returns the context's error, not
\* tagged retryable.
C5_ContextEndInFlightIsTerminal ==
    \A p \in Procs :
        hist[p].ctxDone.pc = "transport"
        => /\ attempt[p] = hist[p].ctxDone.attempt
           /\ hist[p].reqHook = hist[p].ctxDone.attempt - 1
           /\ pc[p] \notin {"timer", "operation"}
           /\ Returned(p) => /\ result[p].res = NoResponse
                             /\ IsCancellation(result[p].err)
                             /\ ~ErrorsIs(result[p].err, RetryableErrorTarget)

ReadErrors(n) == {ReadError(n, rd) : rd \in ReadOutcomes(TRUE) \ {"ok"}}

\* C6, as claimed: after a failure to read the body of a response
\* classified non-retryable, no retry is scheduled and no further attempt
\* is made, and Execute returns the read error.
C6_ReadFailureIsPermanent ==
    \A p \in Procs :
        hist[p].readFailed
        => /\ pc[p] \notin {"timer", "operation", "transport"}
           /\ Returned(p) => /\ result[p].res = NoResponse
                             /\ result[p].err \in ReadErrors(attempt[p])

\* C7, as claimed: ResponseLogHook has been called once for every attempt
\* whose transport call produced a response, retryable or not.
C7_ResponseHookPerResponse ==
    \A p \in Procs : hist[p].respHook = hist[p].nResp

\* C8, as claimed: ErrorLogHook has been called exactly once for every
\* attempt whose transport call returned an error, and for no other.
C8_ErrorHookPerTransportError ==
    \A p \in Procs : hist[p].errHook = hist[p].nErr

\* C8, amended: ErrorLogHook has been called exactly once for every attempt
\* whose transport call returned an error and once for every attempt whose
\* response was classified retryable, and for no other.
C8_ErrorHookPerFailedAttempt ==
    \A p \in Procs : hist[p].errHook = hist[p].nErr + hist[p].nRespRetry

C8_Witness ==
    \E p \in Procs :
        /\ hist[p].nErr >= 1 /\ hist[p].nRespRetry >= 1
        /\ hist[p].errHook = 2 /\ hist[p].last = "connError"

LastOutcome(p) == [kind |-> hist[p].last, status |-> 0]

PermanentTransportError(p) ==
    /\ hist[p].last \notin {"none", "response"}
    /\ ~ErrorRetryPolicy(DoError(attempt[p], LastOutcome(p)))

\* C10: an attempt that ends in a transport error that is not retryable is
\* the last whatever budget remains, and Execute returns a nil Response and
\* that very error: not wrapped as permanent, not tagged retryable.
C10_PermanentErrorReturnedUnwrapped ==
    \A p \in Procs :
        PermanentTransportError(p)
        => /\ Returned(p)
           /\ result[p] = [res |-> NoResponse,
                           err |-> DoError(attempt[p], LastOutcome(p))]
           /\ ~IsPermanent(result[p].err)
           /\ ~ErrorsIs(result[p].err, RetryableErrorTarget)

C10_Witness ==
    \E p \in Procs :
        /\ Returned(p) /\ attempt[p] = 2 /\ hist[p].last = "connError"
        /\ MaxRetry = 0
        /\ result[p].err = UrlError(2, Layer("net.OpError", 2, 0))

\* C11, as claimed: when the response of an attempt has a status code that
\* is not retryable (and the server delivers its body whole), Execute
\* returns at that attempt, with a nil error and the Response of that
\* status; and what Execute returns is never a Response together with an
\* error, and never nil with a nil error.
C11_NonRetryableResponseSucceeds ==
    \A p \in Procs :
        /\ hist[p].lastRead.rd \notin {"none", "unexpectedEOF"}
           => /\ Returned(p)
              /\ result[p] = [res |-> [status  |-> hist[p].lastRead.status,
                                       attempt |-> attempt[p]],
                              err |-> NoError]
        /\ Returned(p) => ((result[p].res = NoResponse) # (result[p].err = NoError))

WrapsType(err, t) == \E i \in DOMAIN err : err[i].type = t

\* C12, as claimed: ErrorRetryPolicy classifies the error of a transport
\* call as retryable if and only if it is or wraps context.DeadlineExceeded
\* or is or wraps an oauth2 RetrieveError, whichever instance it is.
C12_DeadlineOrTokenErrorRetryable ==
    \A p \in Procs :
        hist[p].last \notin {"none", "response"}
        => LET err == DoError(attempt[p], LastOutcome(p)) IN
           ErrorRetryPolicy(err)
           <=> (WrapsType(err, "context.DeadlineExceeded")
                \/ WrapsType(err, "oauth2.RetrieveError"))

RECURSIVE Power(_, _)
Power(b, n) == IF n = 0 THEN 1 ELSE b * Power(b, n - 1)

Clamp(x, lo, hi) == IF x < lo THEN lo ELSE IF x > hi THEN hi ELSE x

\* clamp(I * M^(n-1), I, X) for the I, M and X of the config
ScheduledWait(cfg, n) ==
    Clamp((cfg.initialInterval * Power(cfg.multiplier.num, n - 1))
              \div Power(cfg.multiplier.den, n - 1),
          cfg.initialInterval, cfg.maxInterval)

\* C13, as claimed: the wait before the retry that follows attempt n is
\* drawn (jitter aside) from the interval clamp(I * M^(n-1), I, X), for the
\* initial interval I, the multiplier M and the maximum interval X of the
\* client's config: the package defaults, or what the options set.
C13_ScheduleFromConfig ==
    \A p \in Procs :
        pc[p] = "timer" => hist[p].interval = ScheduledWait(client.cfg, attempt[p])

\* C14, as claimed: with maxRetry = 0, an Execute call whose every attempt
\* had a retryable outcome returns only once the time elapsed since its
\* start exceeds the maximum elapsed time of 30 minutes, and returns the
\* error of its last attempt.
C14_UnboundedStopsPastMaxElapsed ==
    \A p \in Procs :
        (Returned(p) /\ MaxRetry = 0 /\ hist[p].allRetryable)
        => /\ elapsed > DefaultMaxElapsedTime
           /\ ReturnsLastRetryable(p)

\* C15, as claimed: every transport call of an Execute call is made by the
\* client of the config: the one passed to WithClient, or else the one the
\* constructor made, never http.DefaultClient.
C15_TransportByConfiguredClient ==
    \A p \in Procs : hist[p].doers \subseteq {client.cfg.client}

\* the first place of c in the text t, 0 if there is none
IndexOf(t, c) ==
    IF \E i \in DOMAIN t : t[i] = c
    THEN CHOOSE i \in DOMAIN t : t[i] = c /\ \A j \in 1..(i - 1) : t[j] # c
    ELSE 0

\* url.ParseQuery: the pairs key=value between the "&", as a map from the
\* keys to the lists of their values
RECURSIVE ParseQuery(_)
ParseQuery(t) ==
    IF t = << >> THEN << >>
    ELSE LET i     == IndexOf(t, "&")
             pair  == IF i = 0 THEN t ELSE SubSeq(t, 1, i - 1)
             rest  == IF i = 0 THEN << >> ELSE SubSeq(t, i + 1, Len(t))
             j     == IndexOf(pair, "=")
             key   == IF j = 0 THEN pair ELSE SubSeq(pair, 1, j - 1)
             value == IF j = 0 THEN << >> ELSE SubSeq(pair, j + 1, Len(pair))
             m     == ParseQuery(rest)
         IN  [k \in DOMAIN m \cup {key} |->
                 IF k = key
                 THEN <<value>> \o (IF k \in DOMAIN m THEN m[k] ELSE << >>)
                 ELSE m[k]]

\* the map a form-encoded body must decode to, for the form given
Decoded(form) == [k \in {<<x>> : x \in DOMAIN form} |-> <<<<form[k[1]]>>>>]

\* C16, as claimed: on a builder from NewRequestBuilder, PostForm with a
\* non-empty map does not panic, and Build after it gives a POST request of
\* content type application/x-www-form-urlencoded whose body decodes to the
\* pairs given, whatever method and content type were set before; without
\* form data, Build keeps the method, the content type and the body set.
C16_PostFormThenBuild ==
    /\ build.state # "panic"
    /\ (build.state = "built" /\ DOMAIN build.form # {})
       => /\ build.req.method = "POST"
          /\ build.req.contentType = ContentTypeForm
          /\ ParseQuery(build.req.body) = Decoded(build.form)
    /\ (build.state = "built" /\ DOMAIN build.form = {})
       => /\ build.req.method = (IF rb.method = "" THEN "GET" ELSE rb.method)
          /\ build.req.contentType = rb.contentType
          /\ build.req.body = rb.body

\* transport calls of the Execute call of p that have not returned yet
InFlight(p) == attempt[p] - (hist[p].nResp + hist[p].nErr)

\* C17: an Execute call has at most one transport call in flight: an
\* attempt starts only when every earlier attempt of the call has returned
\* and the backoff wait that followed (one wait announced per earlier
\* attempt) has run to its end.
C17_OneTransportInFlight ==
    \A p \in Procs :
        /\ InFlight(p) \in {0, 1}
        /\ InFlight(p) = 1 <=> pc[p] = "transport"
        /\ pc[p] = "transport"
           => (wait[p] = 0 /\ hist[p].reqHook = attempt[p] - 1)

C17_Witness ==
    \E p \in Procs :
        /\ pc[p] = "transport" /\ attempt[p] = 3
        /\ hist[p].nResp + hist[p].nErr = 2 /\ elapsed > 0

\* C18, as claimed: when an attempt starts, and when Execute has returned,
\* every response body the earlier attempts of the call received has been
\* closed.
C18_NoBodyLeftOpen ==
    \A p \in Procs :
        pc[p] \in {"transport", "returned"} => hist[p].open = 0

\* C19, as claimed: on every attempt the transport is handed the request
\* with its whole body (method, URL and headers are fields of the one
\* request and never change): r.Body holds all the bytes of the body when
\* c.Do is called, on attempt 1 and on every later attempt.
C19_RetryResendsWholeBody ==
    \A p \in Procs : hist[p].bodies \subseteq {body[p].len}

\* C20: with a timeout configured and the caller's context live, every
\* attempt gets a context with the whole timeout to its deadline, whatever
\* the earlier attempts used up; the timeout running out on an attempt is
\* a retryable outcome: it ends the call only when the retry budget or the
\* elapsed-time bound of the strategy is spent, and Execute then returns the
\* RetryableError of that attempt.
C20_FreshTimeoutPerAttempt ==
    \A p \in Procs :
        /\ (HasTimeout(client) /\ attempt[p] >= 1 /\ ctx[p] = "live")
           => hist[p].granted = Timeout
        /\ (pc[p] = "transport" /\ derived[p].state = "live")
           => derived[p].left = Timeout
        /\ (hist[p].last = "attemptTimeout" /\ pc[p] = "nextBackOff")
           => (opErr[p] # NoError /\ opErr[p][1].type = "RetryableError"
               /\ ErrorsIs(opErr[p], CtxDeadlineExceeded))
        /\ (hist[p].last = "attemptTimeout" /\ Returned(p))
           => (hist[p].stop \in {"tries", "elapsed"} /\ ReturnsLastRetryable(p))

C20_Witness ==
    \E p \in Procs :
        /\ pc[p] = "transport" /\ attempt[p] = 2
        /\ hist[p].last = "attemptTimeout" /\ elapsed > Timeout
        /\ derived[p] = [state |-> "live", left |-> Timeout]

\* C21: of Execute calls made one after another on one client, whatever
\* the earlier ones did and however they ended, each starts with the
\* strategy reset (no retry counted, the initial interval, no time elapsed)
\* and its attempt counter at 0: its attempt counter counts its own
\* transport calls, the retries counted against maxRetry are its own, its
\* first wait is drawn from the initial interval, and when the retry count
\* stops it, it has made maxRetry + 1 attempts.
C21_ResetPerInvocation ==
    \A p \in Procs :
        /\ (pc[p] = "operation" /\ attempt[p] = 0)
           => (numTries = 0 /\ currentInterval = InitialInterval /\ elapsed = 0)
        /\ (Running(p) \/ Returned(p)) => attempt[p] = Transports(p)
        /\ (Running(p) /\ MaxRetry > 0) => numTries = hist[p].reqHook
        /\ (pc[p] = "timer" /\ attempt[p] = 1) => hist[p].interval = InitialInterval
        /\ (Returned(p) /\ hist[p].stop = "tries") => attempt[p] = MaxRetry + 1

\* a call stopped by the retry count after an earlier call was
C21_Witness ==
    \E p, q \in Procs :
        /\ q < p /\ MaxRetry = 2
        /\ pc[q] = "done" /\ hist[q].stop = "tries" /\ attempt[q] = 3
        /\ Returned(p) /\ hist[p].stop = "tries" /\ attempt[p] = 3
        /\ hist[p].reqHook = 2

\* C22: with a timeout configured, the body of a response that is not
\* retried is read while the attempt's derived context is still live, the
\* cancel of that context coming after the read, and the read does not
\* fail with the cancellation.
C22_BodyReadBeforeCancel ==
    \A p \in Procs :
        (HasTimeout(client) /\ hist[p].lastRead.rd # "none")
            => /\ hist[p].lastRead.ctx = "live"
               /\ hist[p].lastRead.rd # "canceled"

TypeOK ==
    /\ numTries \in Nat
    /\ elapsed \in Nat
    /\ \A p \in Procs : attempt[p] \in 0..MaxAttempts

====
